---- MODULE Spec2Model ----
(***************************************************************************)
(* A model of the executable fragments of the tutorial notebooks of the    *)
(* springer-LLM-recommendation-system repository.                          *)
(*                                                                         *)
(* Every notebook function that is modelled step by step has one variable  *)
(* holding its call frame: a record whose fields carry the names of the    *)
(* function's arguments and locals, plus `pc` (the position in the code)   *)
(* and, where a property counts calls, a log of the external calls made.   *)
(* Pure functions are operators; the variables fn/args/ret hold the        *)
(* function under evaluation, its arguments and its return value.          *)
(*                                                                         *)
(* Strings are sequences of tokens.  Numbers that Python keeps as floats   *)
(* and that are quotients of two counts are kept as the pair <<num, den>>. *)
(***************************************************************************)
EXTENDS Integers, Sequences, FiniteSets, TLC

VARIABLES img, gpt, trainer, evaluator, fn, args, ret,
          module, state, chatbot, reqs

\* the frames of the functions evaluated as operators
pureVars == <<fn, args, ret>>

\* the module-level variables of the serving cells, the per-session
\* gr.State and gr.Chatbot values, and the requests being handled
srvVars == <<module, state, chatbot, reqs>>

vars == <<img, gpt, trainer, evaluator, pureVars, srvVars>>

(***************************************************************************)
(* Bounds of the model.                                                    *)
(***************************************************************************)
MaxUrls == 3
MaxBatch == 2
MaxRows == 2
MaxPairs == 2
MaxEpochs == 2
MaxRequests == 2
MaxRetrieved == 3
MaxRelevant == 2
MaxK == 3
MaxKs == 2
MaxCalls == 2
MaxInteractions == 6
MaxData == 3
MaxHistory == 2
MaxTarget == 1
MaxMovies == 3
MaxTopK == 3
MaxGenerated == 4
MaxText == 4
MaxTexts == 3
MaxDim == 2
HiddenSize == 2
MaxSamples == 2
MaxEquipment == 3
MaxProducts == 6
MaxRatings == 4
MaxDataRows == 4

(***************************************************************************)
(* Helpers: Python built-ins used by the modelled code.                    *)
(***************************************************************************)
None == "None"
Idle == [pc |-> "idle"]
NoReturn == [done |-> FALSE]

\* nothing is being evaluated / no serving cell has run
PureIdle == fn = None /\ args = None /\ ret = NoReturn
SrvIdle == module = None /\ state = None /\ chatbot = None /\ reqs = <<>>

Min(a, b) == IF a <= b THEN a ELSE b
Max(a, b) == IF a >= b THEN a ELSE b

SeqsUpTo(S, n) == UNION {[1..k -> S] : k \in 0..n}

\* s[a:b] of Python for 0 <= a, 0 <= b (0-based, end exclusive, clipped)
Slice(s, a, b) == SubSeq(s, a + 1, Min(b, Len(s)))

\* the number of positions of s whose element satisfies membership in S
RECURSIVE CountIn(_, _)
CountIn(s, S) ==
  IF s = <<>> THEN 0
  ELSE (IF Head(s) \in S THEN 1 ELSE 0) + CountIn(Tail(s), S)

\* the elements of a sequence
Range(s) == {s[k] : k \in 1..Len(s)}

\* torch.cat / list concatenation of a list of lists
RECURSIVE Cat(_)
Cat(ss) == IF ss = <<>> THEN <<>> ELSE Head(ss) \o Cat(Tail(ss))

WhiteSpace == {" ", "\n"}

\* str.strip()
RECURSIVE LStrip(_)
LStrip(s) ==
  IF s # <<>> /\ Head(s) \in WhiteSpace THEN LStrip(Tail(s)) ELSE s

RECURSIVE RStrip(_)
RStrip(s) ==
  IF s # <<>> /\ s[Len(s)] \in WhiteSpace
  THEN RStrip(SubSeq(s, 1, Len(s) - 1)) ELSE s

Strip(s) == RStrip(LStrip(s))

\* `sub in s` for strings
IsSubstring(sub, s) ==
  \E a \in 0..(Len(s) - Len(sub)) : SubSeq(s, a + 1, a + Len(sub)) = sub

(***************************************************************************)
(* FeatureExtractor.get_image_embeddings (Chapter 6).                      *)
(*                                                                         *)
(* The content behind a URL, the CLIP processor and the CLIP image model   *)
(* are external: the image decoded from URL u is <<"image", u>>, and the   *)
(* normalised embedding of an image x is <<"emb", x>>.  requests.get and   *)
(* Image.open may each raise for any URL.                                  *)
(***************************************************************************)
Urls == {"u1", "u2"}

BlankImage == <<"image", "black224x224">>

Image(url) == <<"image", url>>

ImageFeatures(x) == <<"emb", x>>

DownloadOutcomes == {"ok", "get_raises", "decode_raises"}

\* batch = image_urls[i:i+batch_size]
ImgBatch(f) == Slice(f.image_urls, f.i, f.i + f.batch_size)

\* the 1-based list position of the URL the inner loop is at
ImgPosition(f) == f.i + f.j + 1

\* a mutant of ImgExcept: the failed URL is skipped, no placeholder is added
ImgExceptSkip(f) == [f EXCEPT !.j = @ + 1]

\* a mutant of ImgExcept: the failed URL is requested again
ImgExceptRetry(f) == f

\* except Exception: images.append(Image.new("RGB", (224, 224), (0, 0, 0)))
ImgExcept(f) ==
  [f EXCEPT !.images = Append(@, BlankImage), !.j = @ + 1]

\* try: response = requests.get(url, timeout=5); img = Image.open(...);
\*      images.append(img)
ImgTry(f, outcome) ==
  LET url == ImgBatch(f)[f.j + 1]
      g == [f EXCEPT !.gets = Append(@, ImgPosition(f))]
  IN  IF outcome = "ok"
      THEN [g EXCEPT !.images = Append(@, Image(url)), !.j = @ + 1]
      ELSE ImgExcept([g EXCEPT !.failed = @ \cup {ImgPosition(f)}])

ImgInit ==
  \E urls \in SeqsUpTo(Urls, MaxUrls), bs \in 1..MaxBatch :
     img = [image_urls |-> urls, batch_size |-> bs, i |-> 0, j |-> 0,
            images |-> <<>>, embeddings |-> <<>>, gets |-> <<>>,
            failed |-> {}, pc |-> "for_i", ret |-> <<>>]

\* for i in range(0, len(image_urls), batch_size): ... ; after the loop
ImgForBatch ==
  /\ img.pc = "for_i"
  /\ IF img.i < Len(img.image_urls)
     THEN img' = [img EXCEPT !.images = <<>>, !.j = 0, !.pc = "for_url"]
     ELSE img' = [img EXCEPT !.pc = "return"]
  /\ UNCHANGED <<gpt, trainer, evaluator, pureVars, srvVars>>

\* for url in batch: one iteration
ImgFetch ==
  /\ img.pc = "for_url"
  /\ img.j < Len(ImgBatch(img))
  /\ \E outcome \in DownloadOutcomes : img' = ImgTry(img, outcome)
  /\ UNCHANGED <<gpt, trainer, evaluator, pureVars, srvVars>>

\* inputs = clip_processor(images=images); image_emb = get_image_features;
\* embeddings.append(image_emb)
ImgEmbed ==
  /\ img.pc = "for_url"
  /\ img.j >= Len(ImgBatch(img))
  /\ img' = [img EXCEPT
               !.embeddings =
                  Append(@, [k \in 1..Len(img.images) |->
                               ImageFeatures(img.images[k])]),
               !.i = @ + img.batch_size,
               !.pc = "for_i"]
  /\ UNCHANGED <<gpt, trainer, evaluator, pureVars, srvVars>>

\* return torch.cat(embeddings, dim=0): torch.cat raises on an empty list
ImgReturn ==
  /\ img.pc = "return"
  /\ IF img.embeddings = <<>>
     THEN img' = [img EXCEPT !.pc = "raised"]
     ELSE img' = [img EXCEPT !.ret = Cat(img.embeddings), !.pc = "done"]
  /\ UNCHANGED <<gpt, trainer, evaluator, pureVars, srvVars>>

ImgNext == ImgForBatch \/ ImgFetch \/ ImgEmbed \/ ImgReturn

(***************************************************************************)
(* filter_hard_samples_with_gpt4o (Chapter 4, distillation notebook).      *)
(*                                                                         *)
(* A dataframe row is [id, label], id being its position in df; the        *)
(* chat-completion call either raises or returns a message whose content   *)
(* is a string or None.                                                    *)
(***************************************************************************)
Labels == {<<"A">>, <<"B">>, <<" ", "A">>}

GptContents == {<<"A">>, <<"B">>, <<"B", " ">>, <<>>}

\* create() raises; or it returns a message whose content is None or a string
GptOutcomes ==
  {[kind |-> "raises", content |-> <<>>], [kind |-> "none", content |-> <<>>]}
    \cup [kind : {"content"}, content : GptContents]

\* the dataframe whose rows carry the labels ls
DataFrame(ls) == [k \in 1..Len(ls) |-> [id |-> k, label |-> ls[k]]]

\* a mutant of GptExcept: the failed row is dropped from the data
GptExceptFilters(f) ==
  [f EXCEPT !.filtered = Append(@, f.df[f.k + 1]), !.k = @ + 1]

\* a mutant of GptExcept: the failed row is sent again
GptExceptRetry(f) == f

\* except Exception: retained.append(row)
GptExcept(f) ==
  [f EXCEPT !.retained = Append(@, f.df[f.k + 1]), !.k = @ + 1]

\* the body of the loop over df.iterrows() for one row
GptTry(f, outcome) ==
  LET row == f.df[f.k + 1]
      label == Strip(row.label)
      g == [f EXCEPT !.calls = Append(@, f.k + 1),
                     !.outcomes = Append(@, outcome)]
  IN  IF outcome.kind \in {"raises", "none"}
      THEN \* create() raised, or message.content.strip() on None raised
           GptExcept([g EXCEPT !.errors = @ \cup {f.k + 1}])
      ELSE IF IsSubstring(label, Strip(outcome.content))
           THEN [g EXCEPT !.retained = Append(@, row), !.k = @ + 1]
           ELSE [g EXCEPT !.filtered = Append(@, row), !.k = @ + 1]

GptInit ==
  \E ls \in SeqsUpTo(Labels, MaxRows) :
     gpt = [df |-> DataFrame(ls), k |-> 0, filtered |-> <<>>,
            retained |-> <<>>, calls |-> <<>>, outcomes |-> <<>>,
            errors |-> {}, pc |-> "for_row",
            ret |-> [retained_df |-> <<>>, filtered_pct |-> <<0, 1>>]]

\* for i, row in df.iterrows(): one iteration
GptRow ==
  /\ gpt.pc = "for_row"
  /\ gpt.k < Len(gpt.df)
  /\ \E outcome \in GptOutcomes : gpt' = GptTry(gpt, outcome)
  /\ UNCHANGED <<img, trainer, evaluator, pureVars, srvVars>>

\* retained_df = pd.DataFrame(retained);
\* filtered_pct = len(filtered) / len(df) * 100; return
GptReturn ==
  /\ gpt.pc = "for_row"
  /\ gpt.k >= Len(gpt.df)
  /\ IF Len(gpt.df) = 0
     THEN gpt' = [gpt EXCEPT !.pc = "raised"]
     ELSE gpt' = [gpt EXCEPT
                    !.ret = [retained_df |-> gpt.retained,
                             filtered_pct |->
                                <<100 * Len(gpt.filtered), Len(gpt.df)>>],
                    !.pc = "done"]
  /\ UNCHANGED <<img, trainer, evaluator, pureVars, srvVars>>

GptNext == GptRow \/ GptReturn

(***************************************************************************)
(* Specification of the two functions that call external services.         *)
(***************************************************************************)
InitExternal ==
  /\ \/ ImgInit /\ gpt = Idle
     \/ GptInit /\ img = Idle
  /\ trainer = Idle /\ evaluator = Idle
  /\ PureIdle /\ SrvIdle

NextExternal == ImgNext \/ GptNext

SpecExternal == InitExternal /\ [][NextExternal]_vars

(***************************************************************************)
(* Trainer.train and Evaluator.evaluate_pairwise (Chapter 6).              *)
(*                                                                         *)
(* user_embeddings is a dict keyed by user id and product_embeddings a     *)
(* dataframe indexed by item id: only their key sets matter here.  The     *)
(* ranking model is external: whether pos_score > neg_score holds for a    *)
(* pair is any boolean.  run_experiment trains on train_pairs and then     *)
(* evaluates on the same pairs with the same embeddings.                   *)
(***************************************************************************)
Users == {"ua", "ub"}
Items == {"x", "y"}

\* (user_id, pos_item, neg_item)
Pairs == {t \in Users \X Items \X Items : t[2] # t[3]}

\* user_embeddings[user_id], product_embeddings.loc[pid] raise KeyError
LookupRaises(f, pair) ==
  \/ pair[1] \notin f.user_embeddings
  \/ pair[2] \notin f.product_embeddings
  \/ pair[3] \notin f.product_embeddings

\* a mutant of TrainExcept: the loss of the skipped pair is recorded
TrainExceptRecords(f) ==
  [f EXCEPT !.losses = Append(@, f.k + 1), !.k = @ + 1]

\* except KeyError: continue
TrainExcept(f) == [f EXCEPT !.k = @ + 1]

\* the try block of Trainer.train for the pair at position k
TrainTry(f) ==
  IF LookupRaises(f, f.pairs[f.k + 1])
  THEN TrainExcept(f)
  ELSE [f EXCEPT !.steps = Append(@, <<f.epoch, f.k + 1>>),
                 !.losses = Append(@, f.k + 1),
                 !.k = @ + 1]

TrainInit ==
  \E pairs \in SeqsUpTo(Pairs, MaxPairs), ue \in SUBSET Users,
     pe \in SUBSET Items, epochs \in 1..MaxEpochs :
     trainer = [pairs |-> pairs, user_embeddings |-> ue,
                product_embeddings |-> pe, epochs |-> epochs,
                epoch |-> 0, k |-> 0, losses |-> <<>>, steps |-> <<>>,
                printed |-> <<>>, pc |-> "for_epoch"]

\* for epoch in range(epochs): losses = []
TrainForEpoch ==
  /\ trainer.pc = "for_epoch"
  /\ IF trainer.epoch < trainer.epochs
     THEN trainer' = [trainer EXCEPT !.losses = <<>>, !.k = 0,
                                     !.pc = "for_pair"]
     ELSE trainer' = [trainer EXCEPT !.pc = "done"]
  /\ UNCHANGED <<img, gpt, evaluator, pureVars, srvVars>>

\* for user_id, pos_pid, neg_pid in tqdm(pairs): one iteration
TrainPair ==
  /\ trainer.pc = "for_pair"
  /\ trainer.k < Len(trainer.pairs)
  /\ trainer' = TrainTry(trainer)
  /\ UNCHANGED <<img, gpt, evaluator, pureVars, srvVars>>

\* print(f"Epoch {epoch+1}, Loss: {np.mean(losses):.4f}")
TrainEpochEnd ==
  /\ trainer.pc = "for_pair"
  /\ trainer.k >= Len(trainer.pairs)
  /\ trainer' = [trainer EXCEPT !.printed = Append(@, trainer.losses),
                                 !.epoch = @ + 1, !.pc = "for_epoch"]
  /\ UNCHANGED <<img, gpt, evaluator, pureVars, srvVars>>

\* a mutant of EvalSkip: the skipped pair still counts in total
EvalSkipCounts(f) == [f EXCEPT !.total = @ + 1, !.k = @ + 1]

\* if user_id not in self.user_embeddings: continue
\* except KeyError: continue
EvalSkip(f) == [f EXCEPT !.k = @ + 1]

\* the body of the loop of evaluate_pairwise for the pair at position k
EvalPair(f, wins) ==
  IF LookupRaises(f, f.eval_pairs[f.k + 1])
  THEN EvalSkip(f)
  ELSE [f EXCEPT !.visited = Append(@, <<f.k + 1, wins>>),
                 !.correct = @ + (IF wins THEN 1 ELSE 0),
                 !.total = @ + 1,
                 !.k = @ + 1]

\* mlp_evaluator.evaluate_pairwise(train_pairs) after trainer.train(...)
EvalStart ==
  /\ trainer.pc = "done"
  /\ evaluator.pc = "idle"
  /\ evaluator' = [eval_pairs |-> trainer.pairs,
                   user_embeddings |-> trainer.user_embeddings,
                   product_embeddings |-> trainer.product_embeddings,
                   k |-> 0, correct |-> 0, total |-> 0, visited |-> <<>>,
                   pc |-> "for_pair", ret |-> <<0, 1>>]
  /\ UNCHANGED <<img, gpt, trainer, pureVars, srvVars>>

\* for user_id, pos_pid, neg_pid in eval_pairs: one iteration
EvalForPair ==
  /\ evaluator.pc = "for_pair"
  /\ evaluator.k < Len(evaluator.eval_pairs)
  /\ \E wins \in BOOLEAN : evaluator' = EvalPair(evaluator, wins)
  /\ UNCHANGED <<img, gpt, trainer, pureVars, srvVars>>

\* return correct / total if total > 0 else 0.0
EvalReturn ==
  /\ evaluator.pc = "for_pair"
  /\ evaluator.k >= Len(evaluator.eval_pairs)
  /\ evaluator' = [evaluator EXCEPT
                     !.ret = IF evaluator.total > 0
                             THEN <<evaluator.correct, evaluator.total>>
                             ELSE <<0, 1>>,
                     !.pc = "done"]
  /\ UNCHANGED <<img, gpt, trainer, pureVars, srvVars>>

InitPairwise ==
  /\ TrainInit
  /\ evaluator = Idle
  /\ img = Idle /\ gpt = Idle
  /\ PureIdle /\ SrvIdle

NextPairwise ==
  \/ TrainForEpoch \/ TrainPair \/ TrainEpochEnd
  \/ EvalStart \/ EvalForPair \/ EvalReturn

SpecPairwise == InitPairwise /\ [][NextPairwise]_vars

(***************************************************************************)
(* The serving cells: chat (Flask /chat) and chat_with_ner (Gradio submit) *)
(* of Chapter 5, recommend (FastAPI /recommend) of Chapter 4.              *)
(*                                                                         *)
(* Every request runs its handler in steps that interleave with the steps  *)
(* of the other requests.  The classifier and the text-generation          *)
(* pipelines are external: they may answer anything.  A user input is the  *)
(* pair <<who typed it, what was typed>>.  An optional integer is <<>>     *)
(* (None) or <<n>>.                                                        *)
(***************************************************************************)
Sessions == {"s1", "s2"}

Texts == {"recommend a laptop", "tell me about XPS"}

UserInputs(who) == {<<who, t>> : t \in Texts}

Intents == {"recommend", "product_info", "greeting"}

Categories == {"None", "laptop"}

PriceRanges == {<<>>, <<1000>>}

\* products = pd.read_csv("products.csv")
ProductsCsv ==
  << [product_name |-> "XPS", category |-> "laptop", price |-> 900],
     [product_name |-> "Air", category |-> "laptop", price |-> 1200] >>

\* the module-level variables once all cells have run
ModuleAtStartup ==
  [products |-> ProductsCsv,
   Q_table |-> "after q_learning(0, 1, 1)",
   classifier |-> "facebook/bart-large-mnli",
   llm_pipeline |-> "gpt-3.5-turbo",
   recommendation_pipeline |-> "./fine_tuned_model"]

Response(kind, category, price_range, names) ==
  [kind |-> kind, category |-> category, price_range |-> price_range,
   names |-> names]

Raised == Response("raised", "None", <<>>, <<>>)
NoResponse == Response("pending", "None", <<>>, <<>>)

\* filtered_products["product_name"].tolist()[:5]
MaxListed == 5

\* a mutant of recommend_products: the price is not looked at
recommend_products_any_price(products, entities) ==
  IF entities.price_range = <<>> THEN Raised
  ELSE
    LET Matches(r) == r.category = entities.category
        filtered_products == SelectSeq(products, Matches)
    IN  IF filtered_products = <<>>
        THEN Response("No products found in the specified range.",
                      "None", <<>>, <<>>)
        ELSE Response("Here are some", entities.category,
                      entities.price_range,
                      [k \in 1..Min(MaxListed, Len(filtered_products)) |->
                         filtered_products[k].product_name])

\* recommend_products(entities): comparing the price column with None raises
recommend_products(products, entities) ==
  IF entities.price_range = <<>> THEN Raised
  ELSE
    LET Matches(r) == /\ r.category = entities.category
                      /\ r.price <= entities.price_range[1]
        filtered_products == SelectSeq(products, Matches)
    IN  IF filtered_products = <<>>
        THEN Response("No products found in the specified range.",
                      "None", <<>>, <<>>)
        ELSE Response("Here are some", entities.category,
                      entities.price_range,
                      [k \in 1..Min(MaxListed, Len(filtered_products)) |->
                         filtered_products[k].product_name])

\* get_product_details(product_name); found is the set of rows whose name
\* the pattern matches
get_product_details(products, found) ==
  IF found = {} THEN Response("Product not found.", "None", <<>>, <<>>)
  ELSE LET first == CHOOSE k \in found : \A q \in found : k <= q
       IN  Response("Product:", products[first].category,
                    <<products[first].price>>,
                    <<products[first].product_name>>)

Frame(handler, session, user_input) ==
  [handler |-> handler, session |-> session, user_input |-> user_input,
   pc |-> "start", response |-> NoResponse]

\* a mutant of AppendTurn: the turn is put in front of the history
AppendTurnFront(st, s, turn) == [st EXCEPT ![s] = <<turn>> \o @]

\* a mutant of AppendTurn: one list is shared by all sessions
AppendTurnShared(st, s, turn) == [x \in DOMAIN st |-> Append(st[x], turn)]

\* conversation_history.append((user_input, response)) on the list that was
\* passed in, the gr.State value of session s
AppendTurn(st, s, turn) == [st EXCEPT ![s] = Append(@, turn)]

SrvInit ==
  /\ module = ModuleAtStartup
  /\ state = [s \in Sessions |-> <<>>]
  /\ chatbot = [s \in Sessions |-> <<>>]
  /\ reqs = <<>>

\* user_input.submit(chat_with_ner, [user_input, state], [chatbot, state])
Submit ==
  /\ Len(reqs) < MaxRequests
  /\ \E s \in Sessions : \E u \in UserInputs(s) :
        reqs' = Append(reqs, Frame("chat_with_ner", s, u))
  /\ UNCHANGED <<module, state, chatbot>>
  /\ UNCHANGED <<img, gpt, trainer, evaluator, pureVars>>

\* a POST to /chat (Flask) or to /recommend (FastAPI)
Post ==
  /\ Len(reqs) < MaxRequests
  /\ \E h \in {"chat", "recommend"} :
        reqs' = Append(reqs, Frame(h, "None", <<h, "tell me about XPS">>))
  /\ UNCHANGED <<module, state, chatbot>>
  /\ UNCHANGED <<img, gpt, trainer, evaluator, pureVars>>

\* chat_with_ner up to the append: classify_intent, extract_entities_with_llm
\* and the if/elif/else that computes response.  These steps read the
\* module-level classifier, pipeline and products and write only locals.
NerRespond(r) ==
  /\ reqs[r].handler = "chat_with_ner"
  /\ reqs[r].pc = "start"
  /\ \E intent \in Intents, c \in Categories, p \in PriceRanges,
        found \in SUBSET (1..Len(module.products)) :
       LET entities == [category |-> c, price_range |-> p]
           response ==
             IF intent = "recommend"
             THEN recommend_products(module.products, entities)
             ELSE IF intent = "product_info"
             THEN get_product_details(module.products, found)
             ELSE Response("Hello! How can I assist you today?",
                           "None", <<>>, <<>>)
       IN  reqs' = [reqs EXCEPT ![r].response = response,
                                ![r].pc = IF response = Raised
                                          THEN "raised" ELSE "append"]
  /\ UNCHANGED <<module, state, chatbot>>
  /\ UNCHANGED <<img, gpt, trainer, evaluator, pureVars>>

\* conversation_history.append((user_input, response))
NerAppend(r) ==
  /\ reqs[r].handler = "chat_with_ner"
  /\ reqs[r].pc = "append"
  /\ state' = AppendTurn(state, reqs[r].session,
                         <<reqs[r].user_input, reqs[r].response>>)
  /\ reqs' = [reqs EXCEPT ![r].pc = "return"]
  /\ UNCHANGED <<module, chatbot>>
  /\ UNCHANGED <<img, gpt, trainer, evaluator, pureVars>>

\* return conversation_history, conversation_history  -> [chatbot, state]
NerReturn(r) ==
  /\ reqs[r].handler = "chat_with_ner"
  /\ reqs[r].pc = "return"
  /\ chatbot' = [chatbot EXCEPT ![reqs[r].session] = state[reqs[r].session]]
  /\ reqs' = [reqs EXCEPT ![r].pc = "returned"]
  /\ UNCHANGED <<module, state>>
  /\ UNCHANGED <<img, gpt, trainer, evaluator, pureVars>>

\* chat: classify_intent and the if/elif/else; the call
\* recommend_products(category, max_price) does not match the one-parameter
\* definition, so the recommend branch raises
ChatRespond(r) ==
  /\ reqs[r].handler = "chat"
  /\ reqs[r].pc = "start"
  /\ \E intent \in Intents, found \in SUBSET (1..Len(module.products)) :
       LET response ==
             IF intent = "recommend" THEN Raised
             ELSE IF intent = "product_info"
             THEN get_product_details(module.products, found)
             ELSE Response("Hello! How can I assist you?",
                           "None", <<>>, <<>>)
       IN  reqs' = [reqs EXCEPT ![r].response = response,
                                ![r].pc = IF response = Raised
                                          THEN "raised" ELSE "returned"]
  /\ UNCHANGED <<module, state, chatbot>>
  /\ UNCHANGED <<img, gpt, trainer, evaluator, pureVars>>

\* recommend: response = recommendation_pipeline(prompt, max_length=150)
Recommend(r) ==
  /\ reqs[r].handler = "recommend"
  /\ reqs[r].pc = "start"
  /\ \E text \in {"generated_text", "raised"} :
        reqs' = [reqs EXCEPT ![r].response =
                                IF text = "raised" THEN Raised
                                ELSE Response(text, "None", <<>>, <<>>),
                             ![r].pc = IF text = "raised" THEN "raised"
                                       ELSE "returned"]
  /\ UNCHANGED <<module, state, chatbot>>
  /\ UNCHANGED <<img, gpt, trainer, evaluator, pureVars>>

InitServing ==
  /\ SrvInit
  /\ img = Idle /\ gpt = Idle /\ trainer = Idle /\ evaluator = Idle
  /\ PureIdle

NextServing ==
  \/ Submit
  \/ Post
  \/ \E r \in 1..Len(reqs) :
        \/ NerRespond(r) \/ NerAppend(r) \/ NerReturn(r)
        \/ ChatRespond(r)
        \/ Recommend(r)

SpecServing == InitServing /\ [][NextServing]_vars

(***************************************************************************)
(* recommend_products on any catalogue.  The product_name of a row is its  *)
(* position in products.csv.                                               *)
(***************************************************************************)
ProductKinds == [category : {"laptop", "phone"}, price : {900, 1200}]

Catalogue(kinds) ==
  [k \in 1..Len(kinds) |->
     [product_name |-> k, category |-> kinds[k].category,
      price |-> kinds[k].price]]

InitRecommend ==
  /\ fn = "recommend_products"
  /\ \E kinds \in SeqsUpTo(ProductKinds, MaxProducts) :
     \E c \in Categories \cup {"phone"}, p \in PriceRanges :
        args = [products |-> Catalogue(kinds),
                entities |-> [category |-> c, price_range |-> p]]
  /\ ret = [done |-> FALSE, value |-> NoResponse]
  /\ img = Idle /\ gpt = Idle /\ trainer = Idle /\ evaluator = Idle
  /\ SrvIdle

CallRecommend ==
  /\ fn = "recommend_products"
  /\ ~ret.done
  /\ ret' = [done |-> TRUE,
             value |-> recommend_products(args.products, args.entities)]
  /\ UNCHANGED <<fn, args, img, gpt, trainer, evaluator, srvVars>>

NextRecommend == CallRecommend

SpecRecommend == InitRecommend /\ [][NextRecommend]_vars

(***************************************************************************)
(* The dialogue of chat_with_ner: in a session the next input is submitted *)
(* once the call for the previous one is over, as in a sequence of calls   *)
(* of the function on one history.  Sessions still interleave.             *)
(***************************************************************************)
Over(r) == reqs[r].pc \in {"returned", "raised"}

SubmitInTurn ==
  /\ Len(reqs) < MaxRequests
  /\ \E s \in Sessions : \E u \in UserInputs(s) :
        /\ \A r \in 1..Len(reqs) : reqs[r].session = s => Over(r)
        /\ reqs' = Append(reqs, Frame("chat_with_ner", s, u))
  /\ UNCHANGED <<module, state, chatbot>>
  /\ UNCHANGED <<img, gpt, trainer, evaluator, pureVars>>

NextDialogue ==
  \/ SubmitInTurn
  \/ \E r \in 1..Len(reqs) : NerRespond(r) \/ NerAppend(r) \/ NerReturn(r)

SpecDialogue == InitServing /\ [][NextDialogue]_vars

(***************************************************************************)
(* evaluate_retrieval_metrics (Chapter 1).                                 *)
(*                                                                         *)
(* A float that is a quotient of counts is the fraction <<num, den>> in    *)
(* lowest terms, 0.0 being <<0, 1>>.  The value of sklearn's ndcg_score is *)
(* not rational: it is kept as the record of what determines it, the       *)
(* ranks of the relevant items among the top k (DCG) and their number      *)
(* (ideal DCG); 0.0 is the record with no ranks.                           *)
(***************************************************************************)
Docs == {"d1", "d2"}

RECURSIVE GCD(_, _)
GCD(a, b) == IF b = 0 THEN a ELSE GCD(b, a % b)

\* num / den, den > 0
Frac(num, den) == <<num \div GCD(num, den), den \div GCD(num, den)>>

Zero == <<0, 1>>

FracAdd(x, y) == Frac(x[1] * y[2] + y[1] * x[2], x[2] * y[2])

FracMul(x, y) == Frac(x[1] * y[1], x[2] * y[2])

\* x / y, y # 0
FracDiv(x, y) == Frac(x[1] * y[2], x[2] * y[1])

RECURSIVE FracSum(_)
FracSum(xs) == IF xs = <<>> THEN Zero ELSE FracAdd(Head(xs), FracSum(Tail(xs)))

\* float(np.mean(scores)) for a non-empty list of fractions
FracMean(xs) == FracDiv(FracSum(xs), <<Len(xs), 1>>)

\* sum(relevance)
RECURSIVE Sum(_)
Sum(xs) == IF xs = <<>> THEN 0 ELSE Head(xs) + Sum(Tail(xs))

NdcgZero == [ranks |-> {}, ideal |-> 0]

\* ndcg_score([relevance], [predicted_scores], k=k) inside try/except
\* ValueError: a single document, or fewer relevance entries than the k
\* predicted scores, raises ValueError and gives 0.0
Ndcg(relevance, k) ==
  IF Len(relevance) # k \/ k < 2 \/ Sum(relevance) = 0 THEN NdcgZero
  ELSE [ranks |-> {q \in 1..k : relevance[q] = 1}, ideal |-> Sum(relevance)]

\* ks=[10]
DefaultK == 10

\* a mutant of Precision: divides by the number of retrieved items
PrecisionOverRetrieved(relevance, k) ==
  IF relevance = <<>> THEN Zero ELSE Frac(Sum(relevance), Len(relevance))

\* precision = sum(relevance) / k
Precision(relevance, k) == Frac(Sum(relevance), k)

\* recall = sum(relevance) / len(relevant_items)
Recall(relevance, relevant_items) ==
  Frac(Sum(relevance), Cardinality(relevant_items))

\* f1 = 0.0 if precision + recall == 0
\*      else 2 * (precision * recall) / (precision + recall)
F1(precision, recall) ==
  IF FracAdd(precision, recall) = Zero THEN Zero
  ELSE FracDiv(FracMul(<<2, 1>>, FracMul(precision, recall)),
               FracAdd(precision, recall))

\* the first loop over ks: the four values are appended to the lists of k
RECURSIVE MetricLists(_, _, _, _)
MetricLists(metrics, retrieved_results, relevant_items, ks) ==
  IF ks = <<>> THEN metrics
  ELSE
    LET k == Head(ks)
        top_k_items == Slice(retrieved_results, 0, k)
        relevance == [q \in 1..Len(top_k_items) |->
                        IF top_k_items[q] \in relevant_items THEN 1 ELSE 0]
        precision == Precision(relevance, k)
        recall == Recall(relevance, relevant_items)
    IN  MetricLists(
          [metrics EXCEPT
             ![k].Precision = Append(@, precision),
             ![k].Recall = Append(@, recall),
             ![k].NDCG = Append(@, Ndcg(relevance, k)),
             ![k].F1 = Append(@, F1(precision, recall))],
          retrieved_results, relevant_items, Tail(ks))

\* the second loop over ks: every list is replaced by its mean.  The NDCG
\* list of k holds one copy of the same value per occurrence of k in ks,
\* and the mean of copies of a value is that value.  A k that occurs again
\* finds the means in place of the lists and keeps them.
RECURSIVE Averages(_, _, _)
Averages(metrics, done, ks) ==
  IF ks = <<>> THEN metrics
  ELSE
    LET k == Head(ks) IN
    IF k \in done THEN Averages(metrics, done, Tail(ks))
    ELSE Averages(
           [metrics EXCEPT
              ![k] = [Precision |-> FracMean(metrics[k].Precision),
                      Recall |-> FracMean(metrics[k].Recall),
                      NDCG |-> metrics[k].NDCG[1],
                      F1 |-> FracMean(metrics[k].F1)]],
           done \cup {k}, Tail(ks))

\* evaluate_retrieval_metrics(retrieved_results, relevant_documents, ks):
\* the value returned and the arguments as the call leaves them
evaluate_retrieval_metrics(a) ==
  LET ks == a.ks
      relevant_items == Range(a.relevant_documents)
      metrics == [k \in Range(ks) |->
                    [Precision |-> <<>>, Recall |-> <<>>, NDCG |-> <<>>,
                     F1 |-> <<>>]]
  IN  [args |-> a,
       value |->
         IF relevant_items = {}
         THEN [k \in Range(ks) |->
                 [Precision |-> Zero, Recall |-> Zero, NDCG |-> NdcgZero,
                  F1 |-> Zero]]
         ELSE Averages(MetricLists(metrics, a.retrieved_results,
                                   relevant_items, ks), {}, ks)]

\* the argument lists of a call; ks is the list passed, or the default list
MetricsArgs ==
  [retrieved_results : SeqsUpTo(Docs, MaxRetrieved),
   relevant_documents : SeqsUpTo(Docs, MaxRelevant),
   ks : SeqsUpTo(1..MaxK, MaxKs) \cup {<<DefaultK>>}]

InitMetrics ==
  /\ fn = "evaluate_retrieval_metrics"
  /\ args \in MetricsArgs
  /\ ret = [done |-> FALSE, calls |-> 0, called_with |-> args,
            first |-> <<>>, value |-> <<>>]
  /\ img = Idle /\ gpt = Idle /\ trainer = Idle /\ evaluator = Idle
  /\ SrvIdle

\* a call with the argument objects as the previous call left them
CallMetrics ==
  /\ fn = "evaluate_retrieval_metrics"
  /\ ret.calls < MaxCalls
  /\ LET r == evaluate_retrieval_metrics(args) IN
       /\ args' = r.args
       /\ ret' = [done |-> TRUE, calls |-> ret.calls + 1,
                  called_with |-> ret.called_with,
                  first |-> IF ret.calls = 0 THEN r.value ELSE ret.first,
                  value |-> r.value]
  /\ UNCHANGED <<fn, img, gpt, trainer, evaluator, srvVars>>

NextMetrics == CallMetrics

SpecMetrics == InitMetrics /\ [][NextMetrics]_vars

(***************************************************************************)
(* prepare_pairwise_ranking_data_with_user_split (Chapter 6): the split of *)
(* user_df into train_df and test_df.                                      *)
(*                                                                         *)
(* user_df is the list of the user ids of its rows, a row being known by   *)
(* its position.  group.sample(frac=1, random_state=seed) may give any     *)
(* order of the group.  test_ratio is given in tenths.  generate_pairs     *)
(* reads train_df and test_df and changes neither.                         *)
(***************************************************************************)
SplitUsers == {"ua", "ub"}

\* if len(group) < 5: continue
MinInteractions == 5

TestRatios == {2, 5}

\* the positions of the rows of user u, in the order of user_df
RowsOf(user_df, u) == {q \in 1..Len(user_df) : user_df[q] = u}

\* all orders of the elements of S
RECURSIVE Perms(_)
Perms(S) ==
  IF S = {} THEN {<<>>}
  ELSE UNION {{<<x>> \o q : q \in Perms(S \ {x})} : x \in S}

\* a mutant of KeepsUser: a user with exactly 5 interactions is dropped
KeepsUserAbove(n) == n > MinInteractions

\* not (len(group) < 5)
KeepsUser(n) == ~(n < MinInteractions)

\* split_idx = int(len(group) * (1 - test_ratio))
SplitIdx(n, tenths) == (n * (10 - tenths)) \div 10

\* the loop over user_df.groupby("user_id"), users in key order, the group
\* of u shuffled into shuffled[u]; then pd.concat, which raises ValueError
\* when no group was kept
RECURSIVE SplitRows(_, _, _, _)
SplitRows(users, user_df, tenths, shuffled) ==
  IF users = <<>> THEN [train_rows |-> <<>>, test_rows |-> <<>>]
  ELSE
    LET u == Head(users)
        group == shuffled[u]
        rest == SplitRows(Tail(users), user_df, tenths, shuffled)
        split_idx == SplitIdx(Len(group), tenths)
    IN  IF group = <<>> \/ ~KeepsUser(Len(group)) THEN rest
        ELSE [train_rows |-> <<Slice(group, 0, split_idx)>>
                               \o rest.train_rows,
              test_rows |-> <<Slice(group, split_idx, Len(group))>>
                              \o rest.test_rows]

UserSplit(user_df, tenths, shuffled) ==
  LET rows == SplitRows(<<"ua", "ub">>, user_df, tenths, shuffled)
  IN  IF rows.train_rows = <<>>
      THEN [raised |-> TRUE, train_df |-> <<>>, test_df |-> <<>>]
      ELSE [raised |-> FALSE, train_df |-> Cat(rows.train_rows),
            test_df |-> Cat(rows.test_rows)]

InitSplit ==
  /\ fn = "prepare_pairwise_ranking_data_with_user_split"
  /\ args \in [user_df : SeqsUpTo(SplitUsers, MaxInteractions),
               test_ratio : TestRatios]
  /\ ret = [done |-> FALSE, raised |-> FALSE, train_df |-> <<>>,
            test_df |-> <<>>]
  /\ img = Idle /\ gpt = Idle /\ trainer = Idle /\ evaluator = Idle
  /\ SrvIdle

CallSplit ==
  /\ fn = "prepare_pairwise_ranking_data_with_user_split"
  /\ ~ret.done
  /\ \E sa \in Perms(RowsOf(args.user_df, "ua")),
        sb \in Perms(RowsOf(args.user_df, "ub")) :
       LET r == UserSplit(args.user_df, args.test_ratio,
                          [u \in SplitUsers |-> IF u = "ua" THEN sa ELSE sb])
       IN  ret' = [done |-> TRUE, raised |-> r.raised,
                   train_df |-> r.train_df, test_df |-> r.test_df]
  /\ UNCHANGED <<fn, args, img, gpt, trainer, evaluator, srvVars>>

NextSplit == CallSplit

SpecSplit == InitSplit /\ [][NextSplit]_vars

(***************************************************************************)
(* prepare_finetuning_data (fine-tuning notebook).                         *)
(*                                                                         *)
(* A row of data is [userId, rating, timestamp]; its movieId is its        *)
(* position in data (a user rates a movie once) and the title of a movie   *)
(* is known by its movieId.  sort_values(by='timestamp') uses an unstable  *)
(* sort: rows with equal timestamps may come in any order.                 *)
(***************************************************************************)
DataUsers == {"ua", "ub"}
Ratings == {2, 3, 4}
Timestamps == {1, 2}

\* rating >= 4 / rating <= 2
LikedRating == 4
DislikedRating == 2

DataRows == [userId : DataUsers, rating : Ratings, timestamp : Timestamps]

\* the orders sort_values(by='timestamp') may give to the rows of user_id
SortedByTimestamp(data, user_id) ==
  {o \in Perms({q \in 1..Len(data) : data[q].userId = user_id}) :
     \A x, y \in 1..Len(o) :
        x < y => data[o[x]].timestamp <= data[o[y]].timestamp}

\* df[cond]: the rows of a list of rows that are in the set keep, in order
RECURSIVE Where(_, _)
Where(ms, keep) ==
  IF ms = <<>> THEN <<>>
  ELSE (IF Head(ms) \in keep THEN <<Head(ms)>> ELSE <<>>)
         \o Where(Tail(ms), keep)

\* a mutant of Future: the targets are taken from all of user_data
FutureAll(user_data, n_history) == user_data

\* future = user_data.iloc[n_history:]
Future(user_data, n_history) == Slice(user_data, n_history, Len(user_data))

NoSample ==
  [none |-> TRUE, user_id |-> "None", liked |-> <<>>, disliked |-> <<>>,
   response |-> <<>>, liked_movies |-> <<>>]

\* prepare_finetuning_data(data, user_id, n_history, n_target), user_data
\* being data[data['userId'] == user_id].sort_values(by='timestamp')
prepare_finetuning_data(data, user_id, n_history, n_target, user_data) ==
  IF Len(user_data) < n_history + n_target THEN NoSample
  ELSE
    LET past == Slice(user_data, 0, n_history)
        future == Future(user_data, n_history)
        IsLiked == {m \in 1..Len(data) : data[m].rating >= LikedRating}
        IsDisliked == {m \in 1..Len(data) : data[m].rating <= DislikedRating}
        targets == Where(future, IsLiked)
    IN  IF targets = <<>> THEN NoSample
        ELSE [none |-> FALSE, user_id |-> user_id,
              liked |-> Where(past, IsLiked),
              disliked |-> Where(past, IsDisliked),
              response |-> targets,
              liked_movies |-> targets]

InitFinetune ==
  /\ fn = "prepare_finetuning_data"
  /\ args \in [data : SeqsUpTo(DataRows, MaxData), user_id : DataUsers,
               n_history : 1..MaxHistory, n_target : 1..MaxTarget]
  /\ ret = [done |-> FALSE, user_data |-> <<>>, value |-> NoSample]
  /\ img = Idle /\ gpt = Idle /\ trainer = Idle /\ evaluator = Idle
  /\ SrvIdle

CallFinetune ==
  /\ fn = "prepare_finetuning_data"
  /\ ~ret.done
  /\ \E user_data \in SortedByTimestamp(args.data, args.user_id) :
        ret' = [done |-> TRUE, user_data |-> user_data,
                value |-> prepare_finetuning_data(
                            args.data, args.user_id, args.n_history,
                            args.n_target, user_data)]
  /\ UNCHANGED <<fn, args, img, gpt, trainer, evaluator, srvVars>>

NextFinetune == CallFinetune

SpecFinetune == InitFinetune /\ [][NextFinetune]_vars

(***************************************************************************)
(* traditional_recommendation (Chapter 2).                                 *)
(*                                                                         *)
(* train_data is the set of its (userId, movieId) pairs.  The fitted SVD   *)
(* model is external: est gives model.predict(user_id, movie_id).est for   *)
(* the target user.  list(set(...)) may give the unseen movies in any      *)
(* order; sorted() is stable.                                              *)
(***************************************************************************)
RecUsers == {"ua", "ub"}
Estimates == {1, 2}

\* sorted(predictions, key=lambda x: x[1], reverse=True): a stable sort by
\* non-increasing estimate, by insertion from the right
RECURSIVE InsertDesc(_, _, _)
InsertDesc(m, sorted, est) ==
  IF sorted = <<>> THEN <<m>>
  ELSE IF est[m] >= est[Head(sorted)] THEN <<m>> \o sorted
  ELSE <<Head(sorted)>> \o InsertDesc(m, Tail(sorted), est)

RECURSIVE SortedDesc(_, _)
SortedDesc(ms, est) ==
  IF ms = <<>> THEN <<>>
  ELSE InsertDesc(Head(ms), SortedDesc(Tail(ms), est), est)

\* a mutant of UnseenMovies: the movies the user rated are not removed
UnseenMoviesAll(train_data, user_id) == {t[2] : t \in train_data}

\* set(all_movies) - set(rated_movies)
UnseenMovies(train_data, user_id) ==
  {t[2] : t \in train_data} \ {t[2] : t \in {x \in train_data : x[1] = user_id}}

\* traditional_recommendation(train_data, user_id, top_k), unseen_movies
\* being list(set(all_movies) - set(rated_movies))
traditional_recommendation(unseen_movies, est, top_k) ==
  Slice(SortedDesc(unseen_movies, est), 0, top_k)

InitTraditional ==
  /\ fn = "traditional_recommendation"
  /\ args \in [train_data : SUBSET (RecUsers \X (1..MaxMovies)),
               user_id : RecUsers, top_k : 0..MaxTopK,
               est : [1..MaxMovies -> Estimates]]
  /\ ret = [done |-> FALSE, value |-> <<>>]
  /\ img = Idle /\ gpt = Idle /\ trainer = Idle /\ evaluator = Idle
  /\ SrvIdle

CallTraditional ==
  /\ fn = "traditional_recommendation"
  /\ ~ret.done
  /\ \E unseen_movies \in Perms(UnseenMovies(args.train_data, args.user_id)) :
        ret' = [done |-> TRUE,
                value |-> traditional_recommendation(unseen_movies, args.est,
                                                     args.top_k)]
  /\ UNCHANGED <<fn, args, img, gpt, trainer, evaluator, srvVars>>

NextTraditional == CallTraditional

SpecTraditional == InitTraditional /\ [][NextTraditional]_vars

(***************************************************************************)
(* llm_recommendation and map_title_to_id (Chapter 2).                     *)
(*                                                                         *)
(* A text is a sequence of tokens: a title, a comma or a blank.  The chat  *)
(* completion is external, so generated_text is any text; train_data and   *)
(* user_id only go into the prompt.  process.extractOne is external: for a *)
(* title of the catalogue it gives that title with a score above the       *)
(* threshold, for the empty text a score below it, and otherwise any key   *)
(* with any score.                                                         *)
(***************************************************************************)
GeneratedTokens == {"a", "b", ",", " "}

Threshold == 80

\* movies.set_index('title')['movieId'].to_dict()
movie_lookup == [t \in {<<"a">>, <<"b">>} |-> IF t = <<"a">> THEN 1 ELSE 2]

\* str.split(sep)
RECURSIVE Split(_, _)
Split(s, sep) ==
  IF \A q \in 1..Len(s) : s[q] # sep THEN <<s>>
  ELSE LET q == CHOOSE x \in 1..Len(s) :
                   s[x] = sep /\ \A y \in 1..(x - 1) : s[y] # sep
       IN  <<SubSeq(s, 1, q - 1)>> \o Split(SubSeq(s, q + 1, Len(s)), sep)

\* what process.extractOne(title, movie_lookup.keys()) may return
ExtractOne(title) ==
  IF title \in DOMAIN movie_lookup
  THEN {[match |-> title, score |-> Threshold]}
  ELSE IF title = <<>>
  THEN [match : DOMAIN movie_lookup, score : {Threshold - 1}]
  ELSE [match : DOMAIN movie_lookup, score : {Threshold - 1, Threshold}]

\* map_title_to_id(title): <<id>>, or <<>> for None; extracted[title] is the
\* result of process.extractOne
map_title_to_id(title, extracted) ==
  IF extracted[title].score >= Threshold
  THEN <<movie_lookup[extracted[title].match]>>
  ELSE <<>>

\* llm_recommendation(train_data, user_id, top_k), from the chat completion on
RECURSIVE StripAll(_)
StripAll(ts) ==
  IF ts = <<>> THEN <<>> ELSE <<Strip(Head(ts))>> \o StripAll(Tail(ts))

llm_recommendation(content, extracted) ==
  LET generated_text == Strip(content)
      recommended_titles == StripAll(Split(generated_text, ","))
      recommended_ids ==
        [q \in 1..Len(recommended_titles) |->
           map_title_to_id(recommended_titles[q], extracted)]
  IN  Cat(recommended_ids)

InitLlm ==
  /\ fn = "llm_recommendation"
  /\ args \in [top_k : 1..MaxTopK,
               content : SeqsUpTo(GeneratedTokens, MaxGenerated)]
  /\ ret = [done |-> FALSE, titles |-> 0, value |-> <<>>]
  /\ img = Idle /\ gpt = Idle /\ trainer = Idle /\ evaluator = Idle
  /\ SrvIdle

CallLlm ==
  /\ fn = "llm_recommendation"
  /\ ~ret.done
  /\ LET titles == StripAll(Split(Strip(args.content), ","))
     IN  \E extracted \in [Range(titles) -> [match : DOMAIN movie_lookup,
                                            score : {Threshold - 1, Threshold}]] :
            /\ \A t \in Range(titles) : extracted[t] \in ExtractOne(t)
            /\ ret' = [done |-> TRUE, titles |-> Len(titles),
                       value |-> llm_recommendation(args.content, extracted)]
  /\ UNCHANGED <<fn, args, img, gpt, trainer, evaluator, srvVars>>

NextLlm == CallLlm

SpecLlm == InitLlm /\ [][NextLlm]_vars

(***************************************************************************)
(* extract_recommended_titles (fine-tuning notebook).                      *)
(*                                                                         *)
(* A text is a sequence of tokens: "a" is a word, "Y" a run of four        *)
(* digits, "P" the same four digits in parentheses, "R" the phrase         *)
(* 'Recommended movies:' and "F" the phrase 'recommend the following       *)
(* movies:' in any letter case; the others are the characters themselves.  *)
(***************************************************************************)
TitleTokens == {"a", "Y", "P", "R", "F", " ", ",", ";", "\n"}

\* re.search(r"(Recommended movies:|recommend the following movies:)", ...)
Markers == {"R", "F"}

\* generated_text[match.end():] if match else generated_text
TextAfter(generated_text) ==
  IF \E q \in 1..Len(generated_text) : generated_text[q] \in Markers
  THEN LET q == CHOOSE x \in 1..Len(generated_text) :
                  /\ generated_text[x] \in Markers
                  /\ \A y \in 1..(x - 1) : generated_text[y] \notin Markers
       IN  SubSeq(generated_text, q + 1, Len(generated_text))
  ELSE generated_text

\* .replace("\n", ",").replace(";", ",")
Replace(s) ==
  [q \in 1..Len(s) |-> IF s[q] \in {"\n", ";"} THEN "," ELSE s[q]]

\* [t.strip() for t in text_after.split(",") if t.strip()]
RECURSIVE RawTitles(_)
RawTitles(ts) ==
  IF ts = <<>> THEN <<>>
  ELSE (IF Strip(Head(ts)) # <<>> THEN <<Strip(Head(ts))>> ELSE <<>>)
         \o RawTitles(Tail(ts))

\* the body of the cleaning loop: re.match(r"^(.*?)(?:\s+(\d{4}))?$", title)
\* finds a year when the title ends in blanks and four digits
CleanTitle(title) ==
  LET year == Len(title) >= 2 /\ title[Len(title)] = "Y"
                /\ title[Len(title) - 1] \in WhiteSpace
      title_name == IF year THEN Strip(SubSeq(title, 1, Len(title) - 1))
                    ELSE Strip(title)
  IN  IF year /\ ~(title_name # <<>> /\ title_name[Len(title_name)] = "P")
      THEN title_name \o <<" ", "P">>
      ELSE title_name

RECURSIVE CleanedTitles(_)
CleanedTitles(ts) ==
  IF ts = <<>> THEN <<>>
  ELSE <<CleanTitle(Head(ts))>> \o CleanedTitles(Tail(ts))

\* a mutant of FinalTitles: nothing is left out
FinalTitlesAll(cleaned_titles, seen) == cleaned_titles

\* the deduplication loop, seen being the titles met so far
RECURSIVE FinalTitles(_, _)
FinalTitles(cleaned_titles, seen) ==
  IF cleaned_titles = <<>> THEN <<>>
  ELSE IF Head(cleaned_titles) \in seen
  THEN FinalTitles(Tail(cleaned_titles), seen)
  ELSE <<Head(cleaned_titles)>>
         \o FinalTitles(Tail(cleaned_titles), seen \cup {Head(cleaned_titles)})

extract_recommended_titles(generated_text, num_recommend) ==
  LET text_after == Replace(Strip(TextAfter(generated_text)))
      raw_titles == RawTitles(Split(text_after, ","))
      cleaned_titles == CleanedTitles(raw_titles)
      final_titles == FinalTitles(cleaned_titles, {})
  IN  Slice(final_titles, 0, num_recommend)

NumRecommends == {0, 1, 2}

InitExtract ==
  /\ fn = "extract_recommended_titles"
  /\ args \in [generated_text : SeqsUpTo(TitleTokens, MaxText),
               num_recommend : NumRecommends]
  /\ ret = [done |-> FALSE, value |-> <<>>]
  /\ img = Idle /\ gpt = Idle /\ trainer = Idle /\ evaluator = Idle
  /\ SrvIdle

CallExtract ==
  /\ fn = "extract_recommended_titles"
  /\ ~ret.done
  /\ ret' = [done |-> TRUE,
             value |-> extract_recommended_titles(args.generated_text,
                                                  args.num_recommend)]
  /\ UNCHANGED <<fn, args, img, gpt, trainer, evaluator, srvVars>>

NextExtract == CallExtract

SpecExtract == InitExtract /\ [][NextExtract]_vars

(***************************************************************************)
(* generate_embeddings, the version with embedding_dim (Chapter 1).        *)
(*                                                                         *)
(* An array is the sequence of its rows.  The tokenizer and the model are  *)
(* external: each either raises or returns, and the mean-pooled hidden     *)
(* state of a text is a row of HiddenSize numbers that stand for the text. *)
(***************************************************************************)
TextItems == {"None", "x", "y"}

\* str(t) if t is not None else ""
Str(t) == IF t = None THEN "" ELSE t

\* model_output.last_hidden_state.mean(dim=1), the row of one text
Pooled(text) ==
  [j \in 1..HiddenSize |->
     IF text = "" THEN 1 ELSE IF text = "x" THEN 2 ELSE 3]

\* np.zeros((rows, embedding_dim))
Zeros(rows, embedding_dim) ==
  [q \in 1..rows |-> [j \in 1..embedding_dim |-> 0]]

EncoderOutcomes == {"returns", "tokenizer raises", "model raises"}

\* a mutant of ExceptZeros: a single row of zeros
ExceptZerosOneRow(texts, embedding_dim) == Zeros(1, embedding_dim)

\* except Exception: return np.zeros((len(texts), embedding_dim))
ExceptZeros(texts, embedding_dim) == Zeros(Len(texts), embedding_dim)

\* generate_embeddings(texts, model, tokenizer, embedding_dim); is_list is
\* isinstance(texts, list), outcome what the tokenizer and the model do
generate_embeddings(texts, is_list, embedding_dim, outcome) ==
  IF ~is_list \/ Len(texts) = 0
  THEN [called |-> FALSE, value |-> Zeros(1, embedding_dim)]
  ELSE LET strs == [q \in 1..Len(texts) |-> Str(texts[q])]
       IN  IF outcome = "returns"
           THEN [called |-> TRUE,
                 value |-> [q \in 1..Len(strs) |-> Pooled(strs[q])]]
           ELSE [called |-> TRUE, value |-> ExceptZeros(texts, embedding_dim)]

InitEmbeddings ==
  /\ fn = "generate_embeddings"
  /\ args \in [texts : SeqsUpTo(TextItems, MaxTexts), is_list : BOOLEAN,
               embedding_dim : 1..MaxDim]
  /\ ret = [done |-> FALSE, outcome |-> "returns", called |-> FALSE,
            value |-> <<>>]
  /\ img = Idle /\ gpt = Idle /\ trainer = Idle /\ evaluator = Idle
  /\ SrvIdle

CallEmbeddings ==
  /\ fn = "generate_embeddings"
  /\ ~ret.done
  /\ \E outcome \in EncoderOutcomes :
        LET r == generate_embeddings(args.texts, args.is_list,
                                     args.embedding_dim, outcome)
        IN  ret' = [done |-> TRUE,
                    outcome |-> IF r.called THEN outcome ELSE "returns",
                    called |-> r.called, value |-> r.value]
  /\ UNCHANGED <<fn, args, img, gpt, trainer, evaluator, srvVars>>

NextEmbeddings == CallEmbeddings

SpecEmbeddings == InitEmbeddings /\ [][NextEmbeddings]_vars

(***************************************************************************)
(* train_lora_model_olmo (fine-tuning notebook).                           *)
(*                                                                         *)
(* ret is the frame of the call.  The steps of the try block are calls of  *)
(* external libraries: each either returns or raises an Exception.         *)
(* trainer.train() is gone through an epoch at a time, a checkpoint being  *)
(* saved after each (save_strategy="epoch", save_total_limit=2).           *)
(***************************************************************************)
NumTrainEpochs == 3
SaveTotalLimit == 2

\* the statements of the try block that call a library, in order
LoraSteps == <<"load", "get_peft_model", "tokenize_train", "tokenize_eval",
               "trainer", "train", "save_model", "return">>

LoraAfter(pc) ==
  LET q == CHOOSE x \in 1..Len(LoraSteps) : LoraSteps[x] = pc
  IN  LoraSteps[q + 1]

\* a mutant of LoraExcept: the exception is raised again
LoraExceptRaises(f) == [f EXCEPT !.failed_at = f.pc, !.pc = "raised"]

\* except Exception as e: print(...); return False
LoraExcept(f) ==
  [f EXCEPT !.failed_at = f.pc, !.value = "False", !.pc = "done"]

InitLora ==
  /\ fn = "train_lora_model_olmo"
  /\ args \in [train_samples : 0..MaxSamples,
               eval_samples : {<<>>} \cup {<<n>> : n \in 0..MaxSamples}]
  /\ ret = [pc |-> "load", model |-> "None", eval_dataset |-> "None",
            epochs |-> 0, checkpoints |-> 0, saved |-> FALSE,
            failed_at |-> "None", value |-> "None"]
  /\ img = Idle /\ gpt = Idle /\ trainer = Idle /\ evaluator = Idle
  /\ SrvIdle

LoraFrame == fn = "train_lora_model_olmo"

\* AutoTokenizer.from_pretrained, AutoModelForCausalLM.from_pretrained
LoraLoad ==
  /\ LoraFrame /\ ret.pc = "load"
  /\ ret' = [ret EXCEPT !.model = "base", !.pc = LoraAfter(@)]
  /\ UNCHANGED <<fn, args, img, gpt, trainer, evaluator, srvVars>>

\* model = get_peft_model(model, lora_config)
LoraPeft ==
  /\ LoraFrame /\ ret.pc = "get_peft_model"
  /\ ret' = [ret EXCEPT !.model = "lora", !.pc = LoraAfter(@)]
  /\ UNCHANGED <<fn, args, img, gpt, trainer, evaluator, srvVars>>

\* train_dataset = Dataset.from_list(train_samples); train_dataset.map(...)
LoraTokenizeTrain ==
  /\ LoraFrame /\ ret.pc = "tokenize_train"
  /\ ret' = [ret EXCEPT !.pc = LoraAfter(@)]
  /\ UNCHANGED <<fn, args, img, gpt, trainer, evaluator, srvVars>>

\* if eval_samples: ... else: split = train_dataset.train_test_split(...)
LoraTokenizeEval ==
  /\ LoraFrame /\ ret.pc = "tokenize_eval"
  /\ ret' = [ret EXCEPT
               !.eval_dataset =
                  IF args.eval_samples # <<>> /\ args.eval_samples[1] > 0
                  THEN "eval_samples" ELSE "split",
               !.pc = LoraAfter(@)]
  /\ UNCHANGED <<fn, args, img, gpt, trainer, evaluator, srvVars>>

\* DataCollatorForLanguageModeling, TrainingArguments, Trainer
LoraTrainer ==
  /\ LoraFrame /\ ret.pc = "trainer"
  /\ ret' = [ret EXCEPT !.pc = LoraAfter(@)]
  /\ UNCHANGED <<fn, args, img, gpt, trainer, evaluator, srvVars>>

\* trainer.train(): one epoch, its evaluation and its checkpoint
LoraTrainEpoch ==
  /\ LoraFrame /\ ret.pc = "train"
  /\ ret' = [ret EXCEPT
               !.epochs = @ + 1,
               !.checkpoints = Min(@ + 1, SaveTotalLimit),
               !.pc = IF ret.epochs + 1 = NumTrainEpochs
                      THEN LoraAfter(@) ELSE @]
  /\ UNCHANGED <<fn, args, img, gpt, trainer, evaluator, srvVars>>

\* trainer.save_model(output_dir)
LoraSave ==
  /\ LoraFrame /\ ret.pc = "save_model"
  /\ ret' = [ret EXCEPT !.saved = TRUE, !.pc = LoraAfter(@)]
  /\ UNCHANGED <<fn, args, img, gpt, trainer, evaluator, srvVars>>

\* return model
LoraReturn ==
  /\ LoraFrame /\ ret.pc = "return"
  /\ ret' = [ret EXCEPT !.value = ret.model, !.pc = "done"]
  /\ UNCHANGED <<fn, args, img, gpt, trainer, evaluator, srvVars>>

\* a statement of the try block raises
LoraRaise ==
  /\ LoraFrame
  /\ ret.pc \in Range(LoraSteps) \ {"return"}
  /\ ret' = LoraExcept(ret)
  /\ UNCHANGED <<fn, args, img, gpt, trainer, evaluator, srvVars>>

NextLora ==
  \/ LoraLoad \/ LoraPeft \/ LoraTokenizeTrain \/ LoraTokenizeEval
  \/ LoraTrainer \/ LoraTrainEpoch \/ LoraSave \/ LoraReturn \/ LoraRaise

SpecLora == InitLora /\ [][NextLora]_vars

(***************************************************************************)
(* The multi-step task decomposition notebook (Chapter 7), its code cells  *)
(* run from top to bottom.                                                 *)
(*                                                                         *)
(* ret is the state of the kernel.  The LLM is external: the planner call  *)
(* gives any plan, or text json.loads rejects.  The name of a piece of     *)
(* equipment stands for whether it contains a compact keyword.  stages     *)
(* records the stages that have run.                                       *)
(***************************************************************************)
Budget == 2000
EquipmentNames == {"foldable bench", "treadmill"}
EquipmentPrices == {900, 1200}
Equipment == [name : EquipmentNames, price : EquipmentPrices]

RECURSIVE TotalPrice(_)
TotalPrice(equipment) ==
  IF equipment = <<>> THEN 0
  ELSE Head(equipment).price + TotalPrice(Tail(equipment))

verify_budget(equipment, budget_limit) ==
  [within_budget |-> TotalPrice(equipment) <= budget_limit,
   total |-> TotalPrice(equipment)]

\* any(kw in item["name"].lower() for kw in compact_keywords)
IsCompact(item) == item.name = "foldable bench"

verify_space(equipment) ==
  LET compact_count ==
        Cardinality({q \in 1..Len(equipment) : IsCompact(equipment[q])})
  IN  [space_ok |-> compact_count >= Len(equipment) \div 2,
       compact_count |-> compact_count]

InitWorkflow ==
  /\ fn = "MultiStep_Task_Decomposition_Recommendation"
  /\ args = [budget |-> Budget]
  /\ ret = [pc |-> "planner", plan_json |-> <<>>,
            budget_result |-> verify_budget(<<>>, 0),
            space_result |-> verify_space(<<>>),
            critic_input |-> <<>>, stages |-> <<>>]
  /\ img = Idle /\ gpt = Idle /\ trainer = Idle /\ evaluator = Idle
  /\ SrvIdle

WorkflowFrame == fn = "MultiStep_Task_Decomposition_Recommendation"

\* the planner cell: plan_response = llm(planner_input); json.loads(raw_text)
Planner ==
  /\ WorkflowFrame /\ ret.pc = "planner"
  /\ \/ \E equipment \in SeqsUpTo(Equipment, MaxEquipment) :
           ret' = [ret EXCEPT !.plan_json = equipment,
                              !.stages = Append(@, "plan"),
                              !.pc = "tools"]
     \/ ret' = [ret EXCEPT !.pc = "raised"]
  /\ UNCHANGED <<fn, args, img, gpt, trainer, evaluator, srvVars>>

\* the tool execution cell
ToolExecution ==
  /\ WorkflowFrame /\ ret.pc = "tools"
  /\ ret' = [ret EXCEPT
               !.budget_result = verify_budget(ret.plan_json, args.budget),
               !.space_result = verify_space(ret.plan_json),
               !.stages = Append(@, "verify"),
               !.pc = "critic"]
  /\ UNCHANGED <<fn, args, img, gpt, trainer, evaluator, srvVars>>

\* the critic cell: critic_response = llm(critic_input)
Critic ==
  /\ WorkflowFrame /\ ret.pc = "critic"
  /\ \/ ret' = [ret EXCEPT !.critic_input = ret.plan_json,
                           !.stages = Append(@, "critic"),
                           !.pc = "done"]
     \/ ret' = [ret EXCEPT !.pc = "raised"]
  /\ UNCHANGED <<fn, args, img, gpt, trainer, evaluator, srvVars>>

NextWorkflow == Planner \/ ToolExecution \/ Critic

SpecWorkflow == InitWorkflow /\ [][NextWorkflow]_vars

(***************************************************************************)
(* The temporal split of Chapter 2.                                        *)
(*                                                                         *)
(* A rating is [id, userId, timestamp], id being its position in ratings.  *)
(* Series.quantile(0.9) interpolates linearly between the two order        *)
(* statistics around position 0.9 * (n - 1); the cutoff is kept in tenths  *)
(* of the unit of the timestamps, so that it is an integer.                *)
(***************************************************************************)
SplitRatingUsers == {"ua", "ub"}
SplitTimestamps == {1, 2, 3}

RatingsFrame(rows) ==
  [k \in 1..Len(rows) |->
     [id |-> k, userId |-> rows[k].userId, timestamp |-> rows[k].timestamp]]

\* the k-th value of the sorted timestamps, k counted from 0
OrderStatistic(ratings, k) ==
  CHOOSE v \in {ratings[q].timestamp : q \in 1..Len(ratings)} :
    /\ Cardinality({q \in 1..Len(ratings) : ratings[q].timestamp < v}) <= k
    /\ k < Cardinality({q \in 1..Len(ratings) : ratings[q].timestamp <= v})

\* ratings['timestamp'].quantile(0.9), in tenths; ratings is not empty
CutoffTime(ratings) ==
  LET h == 9 * (Len(ratings) - 1)
      lo == h \div 10
      hi == Min(lo + 1, Len(ratings) - 1)
  IN  10 * OrderStatistic(ratings, lo)
        + (h % 10) * (OrderStatistic(ratings, hi) - OrderStatistic(ratings, lo))

\* a mutant of TestOfTrainUsers: the users of test_data are not filtered
TestOfAllUsers(test_data, train_data) == test_data

\* test_data[test_data['userId'].isin(train_data['userId'].unique())]
TestOfTrainUsers(test_data, train_data) ==
  LET InTrain(r) == \E q \in 1..Len(train_data) :
                       train_data[q].userId = r.userId
  IN  SelectSeq(test_data, InTrain)

TemporalSplit(ratings) ==
  IF ratings = <<>>
  THEN [cutoff_time |-> 0, train_data |-> <<>>, test_data |-> <<>>]
  ELSE LET cutoff_time == CutoffTime(ratings)
           AtOrBefore(r) == 10 * r.timestamp <= cutoff_time
           After(r) == 10 * r.timestamp > cutoff_time
           train_data == SelectSeq(ratings, AtOrBefore)
           test_data == SelectSeq(ratings, After)
       IN  [cutoff_time |-> cutoff_time, train_data |-> train_data,
            test_data |-> TestOfTrainUsers(test_data, train_data)]

InitTemporal ==
  /\ fn = "temporal split"
  /\ \E rows \in SeqsUpTo([userId : SplitRatingUsers,
                           timestamp : SplitTimestamps], MaxRatings) :
        args = [ratings |-> RatingsFrame(rows)]
  /\ ret = [done |-> FALSE, value |-> TemporalSplit(<<>>)]
  /\ img = Idle /\ gpt = Idle /\ trainer = Idle /\ evaluator = Idle
  /\ SrvIdle

CallTemporal ==
  /\ fn = "temporal split"
  /\ ~ret.done
  /\ ret' = [done |-> TRUE, value |-> TemporalSplit(args.ratings)]
  /\ UNCHANGED <<fn, args, img, gpt, trainer, evaluator, srvVars>>

NextTemporal == CallTemporal

SpecTemporal == InitTemporal /\ [][NextTemporal]_vars

(***************************************************************************)
(* The sample split of the fine-tuning notebook.                           *)
(*                                                                         *)
(* ret is the state of the cell.  data is known by its userId column and   *)
(* by the set of users for which prepare_finetuning_data returns a sample  *)
(* (with_sample); a sample is known by its user_id.  n_train, n_test and   *)
(* the number of few-shot examples (500, 300 and 5 in the notebook) range  *)
(* over small values.                                                      *)
(***************************************************************************)
SampleUsers == {"u1", "u2", "u3"}
SplitSizes == {1, 2}

\* data['userId'].unique(): the users in the order of their first row
RECURSIVE Unique(_, _)
Unique(column, seen) ==
  IF column = <<>> THEN <<>>
  ELSE IF Head(column) \in seen THEN Unique(Tail(column), seen)
  ELSE <<Head(column)>> \o Unique(Tail(column), seen \cup {Head(column)})

\* [prepare_finetuning_data(data, user_id) for user_id in ...] without the
\* None entries
RECURSIVE UserSamples(_, _)
UserSamples(users, with_sample) ==
  IF users = <<>> THEN <<>>
  ELSE (IF Head(users) \in with_sample
        THEN <<[user_id |-> Head(users)]>> ELSE <<>>)
         \o UserSamples(Tail(users), with_sample)

\* a mutant of EvalSamples: the evaluation slice starts at the first sample
EvalSamplesFromStart(user_samples, n_train, n_test) ==
  Slice(user_samples, 0, n_test)

\* user_samples[n_train:n_train + n_test]
EvalSamples(user_samples, n_train, n_test) ==
  Slice(user_samples, n_train, n_train + n_test)

\* user_samples[:n_train]
TrainSamples(user_samples, n_train) == Slice(user_samples, 0, n_train)

InitSamples ==
  /\ fn = "sample split"
  /\ args \in [userId : SeqsUpTo(SampleUsers, MaxDataRows),
               with_sample : SUBSET SampleUsers,
               n_train : SplitSizes, n_test : SplitSizes,
               n_fewshot : SplitSizes]
  /\ ret = [pc |-> "user_samples", user_samples |-> <<>>,
            train_samples |-> <<>>, eval_samples |-> <<>>,
            fewshot_samples |-> <<>>]
  /\ img = Idle /\ gpt = Idle /\ trainer = Idle /\ evaluator = Idle
  /\ SrvIdle

SamplesFrame == fn = "sample split"

\* the two list comprehensions that build user_samples
BuildUserSamples ==
  /\ SamplesFrame /\ ret.pc = "user_samples"
  /\ ret' = [ret EXCEPT
               !.user_samples = UserSamples(Unique(args.userId, {}),
                                            args.with_sample),
               !.pc = "shuffle"]
  /\ UNCHANGED <<fn, args, img, gpt, trainer, evaluator, srvVars>>

\* random.shuffle(user_samples)
ShuffleUserSamples ==
  /\ SamplesFrame /\ ret.pc = "shuffle"
  /\ \E order \in Perms(1..Len(ret.user_samples)) :
        ret' = [ret EXCEPT
                  !.user_samples = [q \in 1..Len(order) |->
                                      ret.user_samples[order[q]]],
                  !.pc = "split"]
  /\ UNCHANGED <<fn, args, img, gpt, trainer, evaluator, srvVars>>

\* train_samples = ...; eval_samples = ...
SplitUserSamples ==
  /\ SamplesFrame /\ ret.pc = "split"
  /\ ret' = [ret EXCEPT
               !.train_samples = TrainSamples(ret.user_samples, args.n_train),
               !.eval_samples = EvalSamples(ret.user_samples, args.n_train,
                                            args.n_test),
               !.pc = "fewshot"]
  /\ UNCHANGED <<fn, args, img, gpt, trainer, evaluator, srvVars>>

\* fewshot_samples = random.sample(train_samples, 5): ValueError when the
\* sample is larger than the population
SampleFewShot ==
  /\ SamplesFrame /\ ret.pc = "fewshot"
  /\ IF args.n_fewshot > Len(ret.train_samples)
     THEN ret' = [ret EXCEPT !.pc = "raised"]
     ELSE \E chosen \in SUBSET (1..Len(ret.train_samples)) :
             /\ Cardinality(chosen) = args.n_fewshot
             /\ \E order \in Perms(chosen) :
                   ret' = [ret EXCEPT
                             !.fewshot_samples =
                                [q \in 1..Len(order) |->
                                   ret.train_samples[order[q]]],
                             !.pc = "done"]
  /\ UNCHANGED <<fn, args, img, gpt, trainer, evaluator, srvVars>>

NextSamples ==
  \/ BuildUserSamples \/ ShuffleUserSamples \/ SplitUserSamples
  \/ SampleFewShot

SpecSamples == InitSamples /\ [][NextSamples]_vars

(***************************************************************************)
(* C1: get_image_embeddings: every URL of a batch contributes exactly one  *)
(* image; a URL whose download or decode raised contributes the blank      *)
(* placeholder; no exception propagates for a non-empty list; all URLs of  *)
(* all batches are processed, and the returned tensor has len(image_urls)  *)
(* rows, row p being the embedding of the image of URL p (the placeholder  *)
(* where URL p failed).                                                    *)
(***************************************************************************)
C1_PlaceholderOnFailure ==
  /\ img.pc = "for_url" => Len(img.images) = img.j
  /\ img.pc = "raised" => img.image_urls = <<>>
  /\ img.pc = "done" =>
       /\ Range(img.gets) = 1..Len(img.image_urls)
       /\ Len(img.ret) = Len(img.image_urls)
       /\ \A p \in 1..Len(img.image_urls) :
             img.ret[p] = ImageFeatures(IF p \in img.failed
                                        THEN BlankImage
                                        ELSE Image(img.image_urls[p]))

\* a failed URL in the first batch, a good URL in a later batch, returned
C1_Witness ==
  /\ img.pc = "done"
  /\ 1 \in img.failed
  /\ Len(img.image_urls) > img.batch_size
  /\ Len(img.image_urls) \notin img.failed

(***************************************************************************)
(* C2: a pair whose user embedding or either product embedding is missing  *)
(* is skipped: in train no optimizer step is taken and no loss recorded    *)
(* for it, in evaluate_pairwise it counts in neither correct nor total;    *)
(* all other pairs are visited exactly once per epoch / evaluation in list *)
(* order; evaluate_pairwise returns correct/total over the visited pairs   *)
(* and 0.0 when every pair was skipped.                                    *)
(***************************************************************************)
RECURSIVE PresentFrom(_, _, _)
PresentFrom(f, pairs, p) ==
  IF p > Len(pairs) THEN <<>>
  ELSE (IF LookupRaises(f, pairs[p]) THEN <<>> ELSE <<p>>)
         \o PresentFrom(f, pairs, p + 1)

\* the positions of the pairs with all three embeddings present, in order
Present(f, pairs) == PresentFrom(f, pairs, 1)

C2_SkipMissingKeys ==
  /\ trainer.pc # "idle" =>
       LET ok == Present(trainer, trainer.pairs) IN
       /\ \A e \in 1..Len(trainer.printed) : trainer.printed[e] = ok
       /\ trainer.pc = "for_pair" =>
             trainer.losses = Present(trainer,
                                      SubSeq(trainer.pairs, 1, trainer.k))
       /\ trainer.pc = "done" =>
             /\ Len(trainer.printed) = trainer.epochs
             /\ trainer.steps =
                  Cat([e \in 1..trainer.epochs |->
                         [q \in 1..Len(ok) |-> <<e - 1, ok[q]>>]])
  /\ evaluator.pc = "done" =>
       LET ok == Present(evaluator, evaluator.eval_pairs) IN
       /\ [q \in 1..Len(evaluator.visited) |-> evaluator.visited[q][1]] = ok
       /\ evaluator.total = Len(ok)
       /\ evaluator.correct =
            Cardinality({q \in 1..Len(evaluator.visited) :
                           evaluator.visited[q][2]})
       /\ evaluator.ret = IF ok = <<>> THEN <<0, 1>>
                          ELSE <<evaluator.correct, Len(ok)>>

\* the first pair was skipped, the second was trained on and evaluated
C2_Witness ==
  /\ evaluator.pc = "done"
  /\ trainer.pc = "done"
  /\ trainer.epochs = 2
  /\ Len(trainer.pairs) = 2
  /\ Present(trainer, trainer.pairs) = <<2>>
  /\ evaluator.ret = <<1, 1>>

(***************************************************************************)
(* C3: no retry: get_image_embeddings issues at most one HTTP GET per list *)
(* position (exactly one once it returns), also for a position whose       *)
(* request failed; filter_hard_samples_with_gpt4o calls the chat           *)
(* completion at most once per dataframe row (exactly once when it         *)
(* returns), also for a row whose call raised.                             *)
(***************************************************************************)
OncePerItem(log, n) == \A p \in 1..n : CountIn(log, {p}) <= 1

ExactlyOncePerItem(log, n) == \A p \in 1..n : CountIn(log, {p}) = 1

C3_NoRetry ==
  /\ img.pc # "idle" =>
       /\ OncePerItem(img.gets, Len(img.image_urls))
       /\ Range(img.gets) \subseteq 1..Len(img.image_urls)
       /\ img.pc = "done" =>
             ExactlyOncePerItem(img.gets, Len(img.image_urls))
  /\ gpt.pc # "idle" =>
       /\ OncePerItem(gpt.calls, Len(gpt.df))
       /\ Range(gpt.calls) \subseteq 1..Len(gpt.df)
       /\ gpt.pc = "done" => ExactlyOncePerItem(gpt.calls, Len(gpt.df))

\* the first row's request raised, and the function went on and returned
C3_Witness ==
  /\ gpt.pc = "done"
  /\ 1 \in gpt.errors
  /\ Len(gpt.df) >= 2

C8_TopKUnseen ==
  (fn = "traditional_recommendation" /\ ret.done) =>
    LET v == ret.value
        rated == {t[2] : t \in {x \in args.train_data : x[1] = args.user_id}}
        unrated == {t[2] : t \in args.train_data} \ rated
        returned == {v[q] : q \in 1..Len(v)}
    IN  /\ Len(v) <= args.top_k
        /\ Cardinality(returned) = Len(v)
        /\ returned \cap rated = {}
        /\ returned \subseteq unrated
        /\ \A x, y \in 1..Len(v) : x < y => args.est[v[x]] >= args.est[v[y]]
        /\ \A m \in unrated \ returned, r \in returned :
              args.est[m] <= args.est[r]

\* two of three unrated movies are returned, the best first
C8_Witness ==
  /\ fn = "traditional_recommendation"
  /\ ret.done
  /\ args.top_k = 2
  /\ Len(ret.value) = 2
  /\ args.est[ret.value[1]] > args.est[ret.value[2]]
  /\ \E t \in args.train_data : t[1] = args.user_id
  /\ Cardinality({t[2] : t \in args.train_data}) = 3

(***************************************************************************)
(* C9: whatever text the LLM returns, llm_recommendation returns a list of *)
(* catalogue movie ids (values of movie_lookup, never None) with no more   *)
(* than top_k entries.                                                     *)
(***************************************************************************)
LlmCatalogueIds ==
  (fn = "llm_recommendation" /\ ret.done) =>
    \A q \in 1..Len(ret.value) :
       \E t \in DOMAIN movie_lookup : ret.value[q] = movie_lookup[t]

C9_CatalogueIdsAtMostTopK ==
  /\ LlmCatalogueIds
  /\ (fn = "llm_recommendation" /\ ret.done) => Len(ret.value) <= args.top_k

(***************************************************************************)
(* C10: for any generated text extract_recommended_titles returns at most  *)
(* num_recommend titles, none empty and no two equal, in the order of      *)
(* their first occurrence in the text after the first marker (the whole    *)
(* text when there is no marker), newline, semicolon and comma all being   *)
(* separators.  A title occurs where a run of the text between two         *)
(* separators reads as that title once its year is put in parentheses.     *)
(***************************************************************************)
Separators == {"\n", ";", ","}

\* the runs of text t between separators that are not blank
Segments(t) ==
  {sg \in (1..Len(t)) \X (1..Len(t)) :
     /\ sg[1] <= sg[2]
     /\ \A q \in sg[1]..sg[2] : t[q] \notin Separators
     /\ sg[1] = 1 \/ t[sg[1] - 1] \in Separators
     /\ sg[2] = Len(t) \/ t[sg[2] + 1] \in Separators
     /\ Strip(SubSeq(t, sg[1], sg[2])) # <<>>}

TitleAt(t, sg) == CleanTitle(Strip(SubSeq(t, sg[1], sg[2])))

\* where title first occurs in t (past its end when it does not occur)
FirstOccurrence(t, title) ==
  IF \E sg \in Segments(t) : TitleAt(t, sg) = title
  THEN CHOOSE a \in 1..Len(t) :
         /\ \E sg \in Segments(t) : sg[1] = a /\ TitleAt(t, sg) = title
         /\ \A sg \in Segments(t) : TitleAt(t, sg) = title => a <= sg[1]
  ELSE Len(t) + 1

RowsIn(rows, id) == CountIn([q \in 1..Len(rows) |-> rows[q].id], {id})

C11_FilterPartition ==
  gpt.pc # "idle" =>
    /\ \A id \in 1..Len(gpt.df) :
          RowsIn(gpt.retained, id) + RowsIn(gpt.filtered, id)
            = (IF id <= gpt.k THEN 1 ELSE 0)
    /\ Range(gpt.retained) \cup Range(gpt.filtered) \subseteq Range(gpt.df)
    /\ \A id \in 1..gpt.k :
          LET answer == gpt.outcomes[id]
          IN  /\ RowsIn(gpt.filtered, id) = 1 =>
                   /\ answer.kind = "content"
                   /\ ~IsSubstring(Strip(gpt.df[id].label), answer.content)
              /\ answer.kind = "raises" => RowsIn(gpt.retained, id) = 1
    /\ gpt.pc = "raised" => gpt.df = <<>>
    /\ gpt.pc = "done" =>
          /\ gpt.k = Len(gpt.df)
          /\ gpt.ret.filtered_pct[1] * Len(gpt.df)
               = 100 * Len(gpt.filtered) * gpt.ret.filtered_pct[2]
          /\ Len(gpt.ret.retained_df) + Len(gpt.filtered) = Len(gpt.df)

\* the first call raises, the second row is answered wrongly: one row of two
\* is filtered
C11_Witness ==
  /\ gpt.pc = "done"
  /\ Len(gpt.df) = 2
  /\ gpt.outcomes[1].kind = "raises"
  /\ Len(gpt.filtered) = 1
  /\ gpt.ret.filtered_pct = <<100, 2>>

(***************************************************************************)
(* C12: generate_embeddings returns for every list of texts: when the      *)
(* tokenizer or the model raises, an all-zero array of shape               *)
(* (len(texts), embedding_dim); when neither raises, one embedding row per *)
(* input text, in input order.                                             *)
(***************************************************************************)
C12_ZerosOrRowPerText ==
  (fn = "generate_embeddings" /\ ret.done /\ args.is_list) =>
    IF ret.outcome # "returns"
    THEN /\ Len(ret.value) = Len(args.texts)
         /\ \A q \in 1..Len(ret.value) :
               /\ Len(ret.value[q]) = args.embedding_dim
               /\ \A j \in 1..args.embedding_dim : ret.value[q][j] = 0
    ELSE /\ Len(ret.value) = Len(args.texts)
         /\ \A q \in 1..Len(ret.value) :
               ret.value[q] = Pooled(Str(args.texts[q]))

(***************************************************************************)
(* C12, as the code has it: the above for a non-empty list of texts; for   *)
(* an empty list, and for an argument that is not a list, one all-zero row *)
(* of embedding_dim numbers.                                               *)
(***************************************************************************)
C12_ZerosOrRowPerTextNonEmpty ==
  (fn = "generate_embeddings" /\ ret.done) =>
    IF ~args.is_list \/ args.texts = <<>>
    THEN /\ Len(ret.value) = 1
         /\ Len(ret.value[1]) = args.embedding_dim
         /\ \A j \in 1..args.embedding_dim : ret.value[1][j] = 0
    ELSE C12_ZerosOrRowPerText

\* the model raises on two texts, the second of them None
C12_Witness ==
  /\ fn = "generate_embeddings"
  /\ ret.done
  /\ args.is_list
  /\ Len(args.texts) = 2 /\ args.texts[2] = None
  /\ ret.outcome = "model raises"
  /\ Len(ret.value) = 2

(***************************************************************************)
(* C13: train_lora_model_olmo never raises an Exception to its caller; it  *)
(* returns the LoRA-adapted model only after training has finished and the *)
(* model has been saved to output_dir; it returns False when a step        *)
(* (loading, tokenizing, training, saving) raises.                         *)
(***************************************************************************)
C13_ModelOrFalse ==
  fn = "train_lora_model_olmo" =>
    /\ ret.pc # "raised"
    /\ ret.pc = "done" => ret.value \in {"lora", "False"}
    /\ ret.value = "lora" =>
          /\ ret.pc = "done"
          /\ ret.model = "lora"
          /\ ret.epochs = NumTrainEpochs
          /\ ret.saved
          /\ ret.failed_at = "None"
    /\ ret.failed_at # "None" => ret.pc = "done" /\ ret.value = "False"
    /\ ret.value = "False" => ret.failed_at # "None"

\* training raises in its second epoch: False, and nothing saved by
\* save_model
C13_Witness ==
  /\ fn = "train_lora_model_olmo"
  /\ ret.pc = "done"
  /\ ret.failed_at = "train"
  /\ ret.epochs = 1
  /\ ret.value = "False"
  /\ ~ret.saved

(***************************************************************************)
(* C14: a run of the workflow that gets to its end has performed, in this  *)
(* order, plan generation, verification (verify_budget and verify_space),  *)
(* refinement of the plan, and critic evaluation, each of the four once.   *)
(***************************************************************************)
C14_FourStagesInOrder ==
  (fn = "MultiStep_Task_Decomposition_Recommendation" /\ ret.pc = "done") =>
    ret.stages = <<"plan", "verify", "refine", "critic">>

(***************************************************************************)
(* C15: every call of chat_with_ner that returns appends exactly one       *)
(* (user_input, response) pair to the end of conversation_history and      *)
(* leaves the earlier pairs as they were; it returns that same history as  *)
(* the chatbot display and as the new state; after n calls on an initially *)
(* empty history the history holds the n turns in call order.              *)
(***************************************************************************)
\* the turns of the calls of session s whose position is in pcs, in call order
RECURSIVE TurnsOf(_, _, _)
TurnsOf(rs, s, pcs) ==
  IF rs = <<>> THEN <<>>
  ELSE (IF Head(rs).session = s /\ Head(rs).pc \in pcs
        THEN <<(<<Head(rs).user_input, Head(rs).response>>)>> ELSE <<>>)
         \o TurnsOf(Tail(rs), s, pcs)

C15_HistoryAppendOnly ==
  /\ [](\A s \in Sessions :
          /\ state[s] = TurnsOf(reqs, s, {"return", "returned"})
          /\ chatbot[s] = TurnsOf(reqs, s, {"returned"}))
  /\ [][\A s \in Sessions :
          state'[s] # state[s] =>
            \E r \in 1..Len(reqs) :
               /\ reqs[r].session = s
               /\ reqs[r].pc = "append" /\ reqs'[r].pc = "return"
               /\ state'[s] = Append(state[s], <<reqs[r].user_input,
                                                 reqs[r].response>>)]_vars
  /\ [][\A r \in 1..Len(reqs) :
          (reqs[r].pc = "return" /\ reqs'[r].pc = "returned") =>
             /\ chatbot'[reqs[r].session] = state[reqs[r].session]
             /\ state' = state]_vars

\* two calls in one session have returned: two turns, in call order
C15_Witness ==
  /\ Len(reqs) = 2
  /\ reqs[1].session = "s1" /\ reqs[2].session = "s1"
  /\ reqs[1].pc = "returned" /\ reqs[2].pc = "returned"
  /\ reqs[1].user_input # reqs[2].user_input
  /\ chatbot["s1"] = <<(<<reqs[1].user_input, reqs[1].response>>),
                       (<<reqs[2].user_input, reqs[2].response>>)>>
  /\ state["s1"] = chatbot["s1"]

C17_TemporalHoldOut ==
  (fn = "temporal split" /\ ret.done) =>
    LET train == ret.value.train_data
        test == ret.value.test_data
        cutoff == ret.value.cutoff_time
    IN  /\ Range(train) \cup Range(test) \subseteq Range(args.ratings)
        /\ Range(train) \cap Range(test) = {}
        /\ \A x, y \in 1..Len(train) : x # y => train[x].id # train[y].id
        /\ \A x, y \in 1..Len(test) : x # y => test[x].id # test[y].id
        /\ \A q \in 1..Len(test) : 10 * test[q].timestamp > cutoff
        /\ \A q \in 1..Len(train) : 10 * train[q].timestamp <= cutoff
        /\ \A x \in 1..Len(test), y \in 1..Len(train) :
              test[x].timestamp > train[y].timestamp
        /\ \A x \in 1..Len(test) :
              \E y \in 1..Len(train) : train[y].userId = test[x].userId

\* the cutoff falls between the two latest ratings of four; the latest is
\* held out, its user having an earlier rating
C17_Witness ==
  /\ fn = "temporal split"
  /\ ret.done
  /\ Len(args.ratings) = 4
  /\ Len(ret.value.train_data) = 3
  /\ Len(ret.value.test_data) = 1
  /\ ret.value.cutoff_time % 10 # 0
  /\ \E q \in 1..3 :
        ret.value.train_data[q].userId # ret.value.test_data[1].userId

(***************************************************************************)
(* C18: user_samples holds at most one sample per user; train_samples and  *)
(* eval_samples are disjoint slices of it; the few-shot examples are drawn *)
(* from train_samples only; so no user of eval_samples appears in          *)
(* train_samples or in fewshot_samples.                                    *)
(***************************************************************************)
UsersOf(samples) == {samples[q].user_id : q \in 1..Len(samples)}

C18_NoEvalUserInTraining ==
  (fn = "sample split" /\ ret.pc \in {"fewshot", "done", "raised"}) =>
    /\ Cardinality(UsersOf(ret.user_samples)) = Len(ret.user_samples)
    /\ Len(ret.train_samples) + Len(ret.eval_samples) <= Len(ret.user_samples)
    /\ ret.train_samples \o ret.eval_samples
         = SubSeq(ret.user_samples, 1,
                  Len(ret.train_samples) + Len(ret.eval_samples))
    /\ Range(ret.fewshot_samples) \subseteq Range(ret.train_samples)
    /\ UsersOf(ret.eval_samples) \cap UsersOf(ret.train_samples) = {}
    /\ UsersOf(ret.eval_samples) \cap UsersOf(ret.fewshot_samples) = {}

\* three users with a sample: two for training, both few-shot examples, and
\* one for evaluation
C18_Witness ==
  /\ fn = "sample split"
  /\ ret.pc = "done"
  /\ Len(ret.train_samples) = 2
  /\ Len(ret.eval_samples) = 1
  /\ Len(ret.fewshot_samples) = 2
  /\ Len(args.userId) > 3

(***************************************************************************)
(* C4: the handlers chat, recommend and chat_with_ner never write a        *)
(* module-level variable; chat and recommend change no session's history;  *)
(* under any interleaving of requests the history of a session holds only  *)
(* turns typed in that session, and so does its chatbot display.           *)
(***************************************************************************)
OwnTurnsOnly(history, s) ==
  \A q \in 1..Len(history) : history[q][1] \in UserInputs(s)

C4_NoSharedMutableState ==
  /\ [](/\ module = ModuleAtStartup
        /\ \A s \in Sessions : /\ OwnTurnsOnly(state[s], s)
                               /\ OwnTurnsOnly(chatbot[s], s))
  /\ [][\A r \in 1..Len(reqs) :
          (reqs[r].handler \in {"chat", "recommend"} /\ reqs'[r] # reqs[r])
             => UNCHANGED <<module, state, chatbot>>]_vars

\* two sessions, each with a request that has appended and not yet returned
C4_Witness ==
  /\ Len(reqs) = 2
  /\ reqs[1].session = "s1" /\ reqs[1].pc = "return"
  /\ reqs[2].session = "s2" /\ reqs[2].pc = "return"
  /\ Len(state["s1"]) = 1 /\ Len(state["s2"]) = 1

====
